---------------------------- MODULE Spec2Model ----------------------------
(***************************************************************************)
(* Client-side job-status polling of the two admin sync pages.             *)
(*                                                                         *)
(*   index page     wallet/templates/admin/wallet/tokenindex/sync.html     *)
(*                  fetch + async/await, one setTimeout per handled tick   *)
(*   metadata page  wallet/templates/admin/wallet/token/sync_metadata.html *)
(*                  jQuery $.ajax, one setInterval per successful trigger  *)
(*                                                                         *)
(* One browser tab shows one of the two pages (variable page).  A step of  *)
(* the model is one run-to-completion task of the page's event loop: a     *)
(* click handler up to its first suspension, the continuation of a settled *)
(* request, or a timer callback.  The server is an external collaborator:  *)
(* the reply to a request is chosen when the request settles.              *)
(*                                                                         *)
(* User-visible texts are written in English; the Chinese literal of the   *)
(* source is quoted beside each.                                           *)
(***************************************************************************)
EXTENDS Naturals, Sequences, FiniteSets, Bags, TLC

(***************************************************************************)
(* Bounds of the model.                                                    *)
(***************************************************************************)
\* clicks on the start button that the model follows (a session per click)
MaxClicks == 2
\* status requests of one page that may be in flight together
MaxInFlight == 2
\* the per-lifecycle counters of writes to button.disabled saturate here
MaxWrites == 2
\* loads of the referral landing page that the model follows
MaxLoads == 2
\* clicks on a download link of the referral landing page
MaxRefClicks == 2

Sessions == 1..MaxClicks
\* originator of a status request on the metadata page: 0 is the call made
\* at page load, s > 0 the interval timer started by click s
PageLoad == 0
Origins == {PageLoad} \cup Sessions

Bump(n, cap) == IF n < cap THEN n + 1 ELSE cap

(***************************************************************************)
(* What the server may answer.                                             *)
(***************************************************************************)
\* a field that is missing from a JSON object reads as undefined
NoField == "undefined"
\* the four values of the status contract, the value the metadata page
\* tests for, one unrecognised value, and a payload without status
Statuses == {"idle", "running", "success", "error", "completed", "pending", NoField}
Progresses == {0, 55}
Messages == {"", "done"}
Timestamps == {NoField, "2024-01-01T00:00:00Z"}
\* the handlers read each field on its own, so two snapshots per status
\* cover the values of every field: all falsy (0, "", missing) and all set
Snapshots == {[progress |-> 0, message |-> "", timestamp |-> NoField],
              [progress |-> 55, message |-> "done", timestamp |-> "2024-01-01T00:00:00Z"]}
Payloads == {[status |-> st, progress |-> sn.progress, message |-> sn.message,
              timestamp |-> sn.timestamp] : st \in Statuses, sn \in Snapshots}
NoData == [status |-> NoField, progress |-> 0, message |-> "", timestamp |-> NoField]
\* body of a reply that is not a status payload: empty, or a JSON object
\* with a message
JsonBoom == "{\"message\": \"boom\"}"
ErrorBodies == {"", JsonBoom}
\* how a request settles: the transport fails, the response is non-2xx, the
\* response is 2xx with a body that is not JSON, or 2xx with a JSON object
Replies == {[kind |-> k, body |-> "", data |-> NoData] : k \in {"network_error", "bad_json"}}
             \cup {[kind |-> "http_error", body |-> b, data |-> NoData] : b \in ErrorBodies}
             \cup {[kind |-> "json", body |-> "", data |-> d] : d \in Payloads}
\* the reply to a trigger POST: its JSON content is never read
PostReplies == {r \in Replies : r.data = NoData}
StatusReplies == Replies

VARIABLES
  page,                \* "index" or "metadata": the template the tab shows
  \* ---- index page (sync.html) ----
  button,              \* button.disabled
  progress,            \* progress.style.display
  progressBar,         \* progressBar.style.width, in percent
  statusMessage,       \* [textContent, className, display] of .status-message
  idxPost,             \* the session whose trigger POST is in flight, or 0
  idxFetches,          \* per session: status fetches of its checkStatus in flight
  idxTimeouts,         \* per session: pending setTimeout(checkStatus, 1000)
  buttonWrites,        \* writes to button.disabled since the last click
  \* ---- metadata page (sync_metadata.html) ----
  syncButton,          \* $('#sync-button').prop('disabled')
  metaProgressBar,     \* width of #progress-bar, in percent
  statusContainer,     \* class attribute of #status-container
  statusMessageText,   \* text of #status-message
  statusTime,          \* text of #status-time
  statusCheckInterval, \* var statusCheckInterval: 0 (undefined) or a timer id
  intervals,           \* ids of the interval timers that are active
  metaPosts,           \* sessions whose trigger POST is in flight
  metaFetches,         \* per origin: status requests in flight
  \* ---- observation of the sessions (history, not program state) ----
  clicks,              \* clicks handled so far; click k starts session k
  session,             \* per session: where its lifecycle stands
  \* ---- the job on the server, followed only by JobSpec ----
  job,                 \* the progress the server reports now
  stamps,              \* bag of <<origin, progress>>: the responses in flight
  lastOrigin,          \* the origin whose response was rendered last
  \* ---- the other pages: each a record while the tab shows it ----
  referral,            \* landing page with referral tracking
  guard,               \* landing page with download guard
  form,                \* token change form: fetchMetadata
  toggle,              \* token list: toggleRecommend
  oneShot,             \* token form: the one-shot sync button, jQuery scripts
  tokenSync            \* token form: the sync button of the fetch script

idxVars == <<button, progress, progressBar, statusMessage, idxPost, idxFetches,
             idxTimeouts, buttonWrites>>
metaVars == <<syncButton, metaProgressBar, statusContainer, statusMessageText,
              statusTime, statusCheckInterval, intervals, metaPosts, metaFetches>>
obsVars == <<clicks, session>>
jobVars == <<job, stamps, lastOrigin>>
widgetVars == <<referral, guard, form, toggle, oneShot, tokenSync>>
pollVars == <<page, idxVars, metaVars, obsVars, jobVars>>
vars == <<pollVars, widgetVars>>

\* lifecycle of a session, as observed
\*   unused -> trigger -> polling -> answered -> success | error | poll_failed
\*                     -> trigger_failed     -> first_poll_failed
\* polling: no status reply of the session handled yet; answered: only
\* non-terminal ones; then the terminal event handled last
Terminal == {"success", "error", "poll_failed", "first_poll_failed", "trigger_failed"}

\* what a session in state cur is observed to reach when a status reply of
\* its own is handled
Observed(cur, reply) ==
  CASE reply.kind # "json" -> IF cur = "polling" THEN "first_poll_failed" ELSE "poll_failed"
    [] reply.kind = "json" /\ reply.data.status = "success" -> "success"
    [] reply.kind = "json" /\ reply.data.status = "error" -> "error"
    [] OTHER -> IF cur = "polling" THEN "answered" ELSE cur

Sum(f, S) ==
  LET RECURSIVE S_(_)
      S_(T) == IF T = {} THEN 0 ELSE LET x == CHOOSE x \in T : TRUE IN f[x] + S_(T \ {x})
  IN S_(S)

(***************************************************************************)
(* Index page: sync.html                                                   *)
(***************************************************************************)
IdxInit ==
  /\ button = FALSE
  /\ progress = "none"
  /\ progressBar = 0
  /\ statusMessage = [textContent |-> "", className |-> "status-message", display |-> "none"]
  /\ idxPost = 0
  /\ idxFetches = [s \in Sessions |-> 0]
  /\ idxTimeouts = [s \in Sessions |-> 0]
  /\ buttonWrites = [disabled |-> 0, enabled |-> 0]

\* button.disabled = v, counted
IdxSetDisabled(v) ==
  /\ button' = v
  /\ buttonWrites' = IF v THEN [buttonWrites EXCEPT !.disabled = Bump(@, MaxWrites)]
                          ELSE [buttonWrites EXCEPT !.enabled = Bump(@, MaxWrites)]

\* checkStatus() up to its await: the status fetch of session s is issued
IdxCheckStatusCall(s) == idxFetches' = [idxFetches EXCEPT ![s] = @ + 1]

\* a 2xx response
Ok(reply) == reply.kind \in {"json", "bad_json"}

\* the click listener up to `await fetch(POST)`; a disabled button
\* dispatches no click event.  The click opens a lifecycle: the counters of
\* writes to button.disabled restart with the write of line 97
IdxClick ==
  /\ page = "index"
  /\ UNCHANGED <<page, metaVars, jobVars, widgetVars>>
  /\ ~button
  /\ clicks < MaxClicks
  /\ button' = TRUE
  /\ buttonWrites' = [disabled |-> 1, enabled |-> 0]
  /\ progress' = "block"
  /\ statusMessage' = [statusMessage EXCEPT !.display = "none"]
  /\ idxPost' = clicks + 1
  /\ clicks' = clicks + 1
  /\ session' = [session EXCEPT ![clicks + 1] = "trigger"]
  /\ UNCHANGED <<progressBar, idxFetches, idxTimeouts>>

\* error.message of what the click listener's try block throws
IdxTriggerErrorMessage(reply) ==
  IF reply.kind = "network_error" THEN "Failed to fetch"
  ELSE "Sync request failed: " \o reply.body        \* `同步请求失败: ${errorData}`

\* mutant of IdxTriggerCatch: the catch block goes on to poll the status
IdxTriggerCatch_StillPolls(s, reply) ==
  /\ statusMessage' = [textContent |-> "Error: " \o IdxTriggerErrorMessage(reply),
                       className |-> "status-message status-error",
                       display |-> "block"]
  /\ IdxSetDisabled(FALSE)
  /\ session' = [session EXCEPT ![s] = "trigger_failed"]
  /\ IdxCheckStatusCall(s)
  /\ UNCHANGED <<progress, progressBar, idxTimeouts>>

\* catch (error) of the click listener
IdxTriggerCatch(s, reply) ==
  /\ statusMessage' = [textContent |-> "Error: " \o IdxTriggerErrorMessage(reply),  \* `发生错误: ${error.message}`
                       className |-> "status-message status-error",
                       display |-> "block"]
  /\ IdxSetDisabled(FALSE)
  /\ session' = [session EXCEPT ![s] = "trigger_failed"]
  /\ UNCHANGED <<progress, progressBar, idxFetches, idxTimeouts>>

\* response.ok: checkStatus is defined and called
IdxTriggerOk(s) ==
  /\ IdxCheckStatusCall(s)
  /\ session' = [session EXCEPT ![s] = "polling"]
  /\ UNCHANGED <<button, buttonWrites, progress, progressBar, statusMessage, idxTimeouts>>

\* the click listener resumes with the settled POST
IdxPostSettles ==
  /\ page = "index"
  /\ UNCHANGED <<page, metaVars, jobVars, widgetVars>>
  /\ idxPost # 0
  /\ idxPost' = 0
  /\ UNCHANGED clicks
  /\ \E reply \in PostReplies :
       /\ IF Ok(reply) THEN IdxTriggerOk(idxPost) ELSE IdxTriggerCatch(idxPost, reply)

\* mutant of IdxOnSuccess: the success branch also schedules the next tick
IdxOnSuccess_KeepsPolling(s, data) ==
  /\ progressBar' = 100
  /\ statusMessage' = [textContent |-> data.message,
                       className |-> "status-message status-success",
                       display |-> "block"]
  /\ IdxSetDisabled(FALSE)
  /\ idxTimeouts' = [idxTimeouts EXCEPT ![s] = @ + 1]
  /\ UNCHANGED progress

\* data.status === 'success'
IdxOnSuccess(s, data) ==
  /\ progressBar' = 100
  /\ statusMessage' = [textContent |-> data.message,
                       className |-> "status-message status-success",
                       display |-> "block"]
  /\ IdxSetDisabled(FALSE)
  /\ UNCHANGED <<progress, idxTimeouts>>

\* mutant of IdxOnError: the error branch forgets button.disabled = false
IdxOnError_LeavesDisabled(s, data) ==
  /\ statusMessage' = [textContent |-> "Sync failed: " \o data.message,
                       className |-> "status-message status-error",
                       display |-> "block"]
  /\ UNCHANGED <<button, buttonWrites, progress, progressBar, idxTimeouts>>

\* data.status === 'error'
IdxOnError(s, data) ==
  /\ statusMessage' = [textContent |-> "Sync failed: " \o data.message,   \* `同步失败: ${data.message}`
                       className |-> "status-message status-error",
                       display |-> "block"]
  /\ IdxSetDisabled(FALSE)
  /\ UNCHANGED <<progress, progressBar, idxTimeouts>>

\* any other status: update the display, setTimeout(checkStatus, 1000).
\* 0 and "" are falsy: the two updates are skipped for them
IdxOnOther(s, data) ==
  /\ progressBar' = IF data.progress # 0 THEN data.progress ELSE progressBar
  /\ statusMessage' = IF data.message # ""
                      THEN [textContent |-> data.message,
                            className |-> "status-message",
                            display |-> "block"]
                      ELSE statusMessage
  /\ idxTimeouts' = [idxTimeouts EXCEPT ![s] = @ + 1]
  /\ UNCHANGED <<button, buttonWrites, progress>>

\* error.message of what checkStatus's try block throws
IdxStatusErrorMessage(reply) ==
  CASE reply.kind = "network_error" -> "Failed to fetch"
    [] reply.kind = "http_error" -> "Failed to get status"      \* '获取状态失败'
    [] OTHER -> "Unexpected token"                               \* statusResponse.json() rejects

\* mutant of IdxCheckStatusCatch: the catch block retries after a second
IdxCheckStatusCatch_Retries(s, reply) ==
  /\ statusMessage' = [textContent |-> "Status check failed: " \o IdxStatusErrorMessage(reply),
                       className |-> "status-message status-error",
                       display |-> "block"]
  /\ IdxSetDisabled(FALSE)
  /\ idxTimeouts' = [idxTimeouts EXCEPT ![s] = @ + 1]
  /\ UNCHANGED <<progress, progressBar>>

\* catch (error) of checkStatus
IdxCheckStatusCatch(s, reply) ==
  /\ statusMessage' = [textContent |-> "Status check failed: " \o IdxStatusErrorMessage(reply),  \* `检查状态失败: ${error.message}`
                       className |-> "status-message status-error",
                       display |-> "block"]
  /\ IdxSetDisabled(FALSE)
  /\ UNCHANGED <<progress, progressBar, idxTimeouts>>

\* the body of checkStatus after `await fetch(status)`
IdxCheckStatusResume(s, reply) ==
  CASE reply.kind # "json" -> IdxCheckStatusCatch(s, reply)
    [] reply.kind = "json" /\ reply.data.status = "success" -> IdxOnSuccess(s, reply.data)
    [] reply.kind = "json" /\ reply.data.status = "error" -> IdxOnError(s, reply.data)
    [] OTHER -> IdxOnOther(s, reply.data)

\* checkStatus of session s resumes with its settled status fetch.  The
\* further awaits (response.text(), statusResponse.json()) are part of the
\* step: their only outcomes are the value or a rejection that the same
\* catch handles
IdxStatusSettles ==
  /\ page = "index"
  /\ UNCHANGED <<page, metaVars, jobVars, widgetVars>>
  /\ \E s \in Sessions :
       /\ idxFetches[s] > 0
       /\ idxFetches' = [idxFetches EXCEPT ![s] = @ - 1]
       /\ \E reply \in StatusReplies :
            /\ session' = [session EXCEPT ![s] = Observed(@, reply)]
            /\ IdxCheckStatusResume(s, reply)
  /\ UNCHANGED <<idxPost, clicks>>

\* mutant of IdxTimeoutFires: setInterval in place of setTimeout, the timer
\* stays armed after it has fired
IdxTimeoutFires_Repeating ==
  /\ page = "index"
  /\ UNCHANGED <<page, metaVars, jobVars, widgetVars>>
  /\ \E s \in Sessions :
       /\ idxTimeouts[s] > 0
       /\ IdxCheckStatusCall(s)
  /\ UNCHANGED <<button, buttonWrites, progress, progressBar, statusMessage, idxPost,
                 idxTimeouts, clicks, session>>

\* a timer set by setTimeout(checkStatus, 1000) fires, once
IdxTimeoutFires ==
  /\ page = "index"
  /\ UNCHANGED <<page, metaVars, jobVars, widgetVars>>
  /\ \E s \in Sessions :
       /\ idxTimeouts[s] > 0
       /\ idxTimeouts' = [idxTimeouts EXCEPT ![s] = @ - 1]
       /\ IdxCheckStatusCall(s)
  /\ UNCHANGED <<button, buttonWrites, progress, progressBar, statusMessage, idxPost,
                 clicks, session>>

(***************************************************************************)
(* Metadata page: sync_metadata.html                                       *)
(***************************************************************************)
MetaInit ==
  /\ syncButton = FALSE
  /\ metaProgressBar = 0
  /\ statusContainer = "status-container status-idle"
  /\ statusMessageText = "Sync not started"                 \* 未开始同步
  /\ statusTime = ""
  /\ statusCheckInterval = 0
  /\ intervals = {}
  /\ metaPosts = {}
  \* the ready handler ends with checkSyncStatus()
  /\ metaFetches = [o \in Origins |-> IF o = PageLoad /\ page = "metadata" THEN 1 ELSE 0]

InFlight == Sum(metaFetches, Origins)

\* checkSyncStatus(): $.ajax GET of the status, issued for origin o
checkSyncStatus(o) == metaFetches' = [metaFetches EXCEPT ![o] = @ + 1]

\* clearInterval(id): no effect for an id that names no active timer
clearInterval(id) == intervals' = intervals \ {id}

\* xhr.responseJSON ? xhr.responseJSON.message : '未知错误'
XhrMessage(reply) ==
  IF reply.kind = "http_error" /\ reply.body = JsonBoom THEN "boom" ELSE "Unknown error"

\* new Date(status.timestamp).toLocaleString()
ToLocaleString(ts) == "<" \o ts \o " in the locale's format>"

\* mutant of updateStatusUI: the reported progress is added to the bar
updateStatusUI_AddsProgress(status) ==
  /\ metaProgressBar' = (metaProgressBar + status.progress) % 101
  /\ statusMessageText' = IF status.message # "" THEN status.message ELSE "Unknown status"
  /\ statusContainer' = "status-container status-" \o status.status
  /\ statusTime' = IF status.timestamp # NoField
                   THEN "Last updated: " \o ToLocaleString(status.timestamp)
                   ELSE ""
  /\ syncButton' = (status.status = "running")
  /\ IF status.status = "completed" \/ status.status = "error"
     THEN clearInterval(statusCheckInterval)
     ELSE UNCHANGED intervals

\* mutant of updateStatusUI: a poll limit of one, the timer is cleared
\* whatever the status
updateStatusUI_StopsAfterOnePoll(status) ==
  /\ metaProgressBar' = status.progress
  /\ statusMessageText' = IF status.message # "" THEN status.message ELSE "Unknown status"
  /\ statusContainer' = "status-container status-" \o status.status
  /\ statusTime' = IF status.timestamp # NoField
                   THEN "Last updated: " \o ToLocaleString(status.timestamp)
                   ELSE ""
  /\ syncButton' = (status.status = "running")
  /\ clearInterval(statusCheckInterval)

\* updateStatusUI(status)
updateStatusUI(status) ==
  /\ metaProgressBar' = status.progress
  /\ statusMessageText' = IF status.message # "" THEN status.message ELSE "Unknown status"   \* '未知状态'
  /\ statusContainer' = "status-container status-" \o status.status
  /\ statusTime' = IF status.timestamp # NoField
                   THEN "Last updated: " \o ToLocaleString(status.timestamp)    \* '最后更新: '
                   ELSE ""
  /\ syncButton' = (status.status = "running")
  /\ IF status.status = "completed" \/ status.status = "error"
     THEN clearInterval(statusCheckInterval)
     ELSE UNCHANGED intervals

\* error callback of checkSyncStatus
MetaStatusError(reply) ==
  /\ clearInterval(statusCheckInterval)
  /\ statusContainer' = "status-container status-error"
  /\ statusMessageText' = "Failed to get status: " \o XhrMessage(reply)     \* '获取状态失败: '
  /\ syncButton' = FALSE
  /\ UNCHANGED <<metaProgressBar, statusTime>>

\* a status request settles: success or error callback of checkSyncStatus
MetaStatusSettles ==
  /\ page = "metadata"
  /\ UNCHANGED <<page, idxVars, jobVars, widgetVars>>
  /\ \E o \in Origins :
       /\ metaFetches[o] > 0
       /\ metaFetches' = [metaFetches EXCEPT ![o] = @ - 1]
       /\ \E reply \in StatusReplies :
            /\ session' = IF o = PageLoad THEN session
                          ELSE [session EXCEPT ![o] = Observed(@, reply)]
            /\ IF reply.kind = "json" THEN updateStatusUI(reply.data) ELSE MetaStatusError(reply)
  /\ UNCHANGED <<statusCheckInterval, metaPosts, clicks>>

\* click on #sync-button; a disabled button dispatches no click event
MetaClick ==
  /\ page = "metadata"
  /\ UNCHANGED <<page, idxVars, jobVars, widgetVars>>
  /\ ~syncButton
  /\ clicks < MaxClicks
  /\ syncButton' = TRUE
  /\ metaPosts' = metaPosts \cup {clicks + 1}
  /\ clicks' = clicks + 1
  /\ session' = [session EXCEPT ![clicks + 1] = "trigger"]
  /\ UNCHANGED <<metaProgressBar, statusContainer, statusMessageText, statusTime,
                 statusCheckInterval, intervals, metaFetches>>

\* success callback of the trigger POST of session s; the id that
\* setInterval returns is named after the session
MetaTriggerSuccess(s) ==
  /\ statusContainer' = "status-container status-running"
  /\ statusMessageText' = "Sync task started"               \* 同步任务已启动
  /\ statusCheckInterval' = s
  /\ intervals' = intervals \cup {s}
  /\ session' = [session EXCEPT ![s] = "polling"]
  /\ UNCHANGED syncButton

\* mutant of MetaTriggerError: the error callback starts the polling too
MetaTriggerError_StartsPolling(s, reply) ==
  /\ statusContainer' = "status-container status-error"
  /\ statusMessageText' = "Failed to start sync: " \o XhrMessage(reply)
  /\ syncButton' = FALSE
  /\ session' = [session EXCEPT ![s] = "trigger_failed"]
  /\ statusCheckInterval' = s
  /\ intervals' = intervals \cup {s}

\* error callback of the trigger POST of session s
MetaTriggerError(s, reply) ==
  /\ statusContainer' = "status-container status-error"
  /\ statusMessageText' = "Failed to start sync: " \o XhrMessage(reply)     \* '启动同步失败: '
  /\ syncButton' = FALSE
  /\ session' = [session EXCEPT ![s] = "trigger_failed"]
  /\ UNCHANGED <<statusCheckInterval, intervals>>

\* a trigger POST settles; dataType 'json': a 2xx body that does not parse
\* goes to the error callback
MetaPostSettles ==
  /\ page = "metadata"
  /\ UNCHANGED <<page, idxVars, jobVars, widgetVars>>
  /\ \E s \in metaPosts :
       /\ metaPosts' = metaPosts \ {s}
       /\ \E reply \in PostReplies :
            /\ IF reply.kind = "json" THEN MetaTriggerSuccess(s) ELSE MetaTriggerError(s, reply)
  /\ UNCHANGED <<metaProgressBar, statusTime, metaFetches, clicks>>

\* an active interval timer fires: checkSyncStatus()
MetaIntervalFires ==
  /\ page = "metadata"
  /\ UNCHANGED <<page, idxVars, jobVars, widgetVars>>
  /\ InFlight < MaxInFlight
  /\ \E t \in intervals :
       /\ checkSyncStatus(t)
  /\ UNCHANGED <<syncButton, metaProgressBar, statusContainer, statusMessageText,
                 statusTime, statusCheckInterval, intervals, metaPosts, clicks, session>>

(***************************************************************************)
(* The job on the server.  Spec leaves the content of a status reply open  *)
(* until it arrives; JobSpec below follows the job's progress and stamps   *)
(* each status request with the progress the server has when the request   *)
(* is issued.                                                              *)
(***************************************************************************)
JobInit ==
  /\ job = 0
  /\ stamps = IF page = "metadata" THEN SetToBag({<<PageLoad, 0>>}) ELSE EmptyBag
  /\ lastOrigin = PageLoad

(***************************************************************************)
(* The tab.                                                                *)
(***************************************************************************)
\* the value of a page's variable while the tab shows another page
NotLoaded == "not loaded"

\* the two sync pages before anything has happened on them
SyncPagesInit ==
  /\ IdxInit
  /\ MetaInit
  /\ clicks = 0
  /\ session = [s \in Sessions |-> "unused"]
  /\ JobInit

Init ==
  /\ page \in {"index", "metadata"}
  /\ IdxInit
  /\ MetaInit
  /\ clicks = 0
  /\ session = [s \in Sessions |-> "unused"]
  /\ JobInit
  /\ referral = NotLoaded
  /\ guard = NotLoaded
  /\ form = NotLoaded
  /\ toggle = NotLoaded
  /\ oneShot = NotLoaded
  /\ tokenSync = NotLoaded

Next ==
  \/ IdxClick
  \/ IdxPostSettles
  \/ IdxStatusSettles
  \/ IdxTimeoutFires
  \/ MetaClick
  \/ MetaPostSettles
  \/ MetaStatusSettles
  \/ MetaIntervalFires

Spec == Init /\ [][Next]_vars

(***************************************************************************)
(* Landing page with referral tracking: unnamed/part_000, first document.  *)
(* referral is a record:                                                   *)
(*   urlRef       the ref parameter of the page's URL, "" when absent      *)
(*   dclPending   DOMContentLoaded has not been dispatched yet             *)
(*   setupTimer   setTimeout(setupReferralTracking, 1) is pending          *)
(*   listeners    click listeners that the runs of setupReferralTracking   *)
(*                have added to a download link                            *)
(*   storageRef   localStorage coco_wallet_ref_code, "" when absent        *)
(*   storageDev   localStorage coco_wallet_temp_device_id, 0 when absent   *)
(*   uuids        device ids generated so far; the k-th is k               *)
(*   inFlight     record_web_download requests in flight                   *)
(*   retryTimers  pending timers of the download catch handler             *)
(*   visits       device ids of the record_visit requests sent, in order   *)
(*   downloads    device ids of the record_web_download requests sent      *)
(*   loads, clicks  page loads and link clicks so far                      *)
(* localStorage and the two histories outlive a reload of the page.        *)
(***************************************************************************)
RefCodes == {"", "abc"}

\* document.readyState when the script runs, and whether DOMContentLoaded
\* is still to come: it has not fired while loading, has fired when
\* complete, and fires during interactive
ReadyStates ==
  {[readyState |-> "loading", dclPending |-> TRUE],
   [readyState |-> "interactive", dclPending |-> TRUE],
   [readyState |-> "interactive", dclPending |-> FALSE],
   [readyState |-> "complete", dclPending |-> FALSE]}

\* the script has run: the DOMContentLoaded listener is registered, and
\* setTimeout(setupReferralTracking, 1) is pending unless still loading
RefLoaded(r, url, rs) ==
  [r EXCEPT !.urlRef = url,
            !.dclPending = rs.dclPending,
            !.setupTimer = (rs.readyState # "loading"),
            !.listeners = 0,
            !.inFlight = 0,
            !.retryTimers = 0]

RefBlank ==
  [urlRef |-> "", dclPending |-> FALSE, setupTimer |-> FALSE, listeners |-> 0,
   storageRef |-> "", storageDev |-> 0, uuids |-> 0, inFlight |-> 0,
   retryTimers |-> 0, visits |-> <<>>, downloads |-> <<>>, loads |-> 1, clicks |-> 0]

\* what localStorage.setItem does in a run: both writes succeed, the first
\* throws, or the write of the device id throws
SetItemOutcomes == {"stored", "ref_throws", "dev_throws"}

\* mutant of setupReferralTracking: a fresh device id in every run
setupReferralTracking_FreshId(r, outcome) ==
  LET refCode == IF r.urlRef # "" THEN r.urlRef ELSE r.storageRef
      tracked ==
        IF refCode = "" \/ outcome = "ref_throws" THEN r
        ELSE IF outcome = "dev_throws" THEN [r EXCEPT !.storageRef = refCode]
        ELSE [r EXCEPT !.storageRef = refCode,
                       !.storageDev = r.uuids + 1,
                       !.uuids = r.uuids + 1,
                       !.visits = Append(r.visits, r.uuids + 1)]
  IN [tracked EXCEPT !.listeners = @ + 1]

\* setupReferralTracking()
setupReferralTracking(r, outcome) ==
  LET refCode == IF r.urlRef # "" THEN r.urlRef ELSE r.storageRef
      tracked ==
        IF refCode = "" \/ outcome = "ref_throws" THEN r
        ELSE IF r.storageDev # 0
          THEN [r EXCEPT !.storageRef = refCode,
                         !.visits = Append(r.visits, r.storageDev)]
        ELSE IF outcome = "dev_throws" THEN [r EXCEPT !.storageRef = refCode]
        ELSE [r EXCEPT !.storageRef = refCode,
                       !.storageDev = r.uuids + 1,
                       !.uuids = r.uuids + 1,
                       !.visits = Append(r.visits, r.uuids + 1)]
  IN [tracked EXCEPT !.listeners = @ + 1]

\* mutant of the click listener: the request is sent whatever localStorage holds
DownloadsOfClick_Unconditional(r) ==
  [i \in 1..r.listeners |-> r.storageDev]

\* the requests the listeners of a link send for one click: each listener
\* reads localStorage and sends one when both items are there
DownloadsOfClick(r) ==
  IF r.storageDev # 0 /\ r.storageRef # ""
  THEN [i \in 1..r.listeners |-> r.storageDev]
  ELSE <<>>

RefFrame == UNCHANGED <<pollVars, guard, form, toggle, oneShot, tokenSync>>

\* DOMContentLoaded is dispatched
RefDomContentLoaded ==
  /\ page = "referral"
  /\ referral.dclPending
  /\ \E outcome \in SetItemOutcomes :
       referral' = setupReferralTracking([referral EXCEPT !.dclPending = FALSE], outcome)
  /\ RefFrame

\* the timer of setTimeout(setupReferralTracking, 1) fires
RefSetupTimerFires ==
  /\ page = "referral"
  /\ referral.setupTimer
  /\ \E outcome \in SetItemOutcomes :
       referral' = setupReferralTracking([referral EXCEPT !.setupTimer = FALSE], outcome)
  /\ RefFrame

\* a click on a download link
RefClick ==
  /\ page = "referral"
  /\ referral.clicks < MaxRefClicks
  /\ referral' = [referral EXCEPT
                    !.clicks = @ + 1,
                    !.downloads = @ \o DownloadsOfClick(referral),
                    !.inFlight = @ + Len(DownloadsOfClick(referral))]
  /\ RefFrame

\* a record_web_download request settles.  A 2xx reply that parses shows a
\* message at most; anything else reaches the catch handler, which logs
\* and sets a timer
RefDownloadSettles ==
  /\ page = "referral"
  /\ referral.inFlight > 0
  /\ \E failed \in BOOLEAN :
       referral' = [referral EXCEPT
                      !.inFlight = @ - 1,
                      !.retryTimers = IF failed THEN @ + 1 ELSE @]
  /\ RefFrame

\* the timer of the catch handler fires: it logs, nothing else
RefRetryTimerFires ==
  /\ page = "referral"
  /\ referral.retryTimers > 0
  /\ referral' = [referral EXCEPT !.retryTimers = @ - 1]
  /\ RefFrame

\* the page is loaded again: the document and its timers are gone,
\* localStorage stays
RefReload ==
  /\ page = "referral"
  /\ referral.loads < MaxLoads
  /\ \E url \in RefCodes, rs \in ReadyStates :
       referral' = RefLoaded([referral EXCEPT !.loads = @ + 1], url, rs)
  /\ RefFrame

RefInit ==
  /\ page = "referral"
  /\ SyncPagesInit
  /\ oneShot = NotLoaded
  /\ tokenSync = NotLoaded
  /\ \E url \in RefCodes, rs \in ReadyStates : referral = RefLoaded(RefBlank, url, rs)
  /\ guard = NotLoaded
  /\ form = NotLoaded
  /\ toggle = NotLoaded

RefNext ==
  \/ RefDomContentLoaded
  \/ RefSetupTimerFires
  \/ RefClick
  \/ RefDownloadSettles
  \/ RefRetryTimerFires
  \/ RefReload

RefSpec == RefInit /\ [][RefNext]_vars

(***************************************************************************)
(* Landing page with download guard: unnamed/part_000, second document.    *)
(* Its script runs when only the link of the navigation bar exists, so     *)
(* that link is the one with the click listener.  guard is a record:       *)
(*   urlRef       the ref parameter of the page's URL, "" when absent      *)
(*   downloading  the link has data-downloading="true"                     *)
(*   innerHTML    the content of the link                                  *)
(*   inFlight     the URLs of the tracking fetches in flight               *)
(*   timers       the pending timers of the finally blocks, each with the  *)
(*                originalText its listener run captured                   *)
(*   navigations  assignments to window.location.href so far               *)
(*   errors       console.error calls of the catch block so far            *)
(*   clicks, accepted   clicks so far, and those that passed the guard     *)
(***************************************************************************)
\* clicks on the download link that the model follows
MaxGuardClicks == 4

LinkText == "Download App"
Spinner == "<i class=\"fas fa-spinner fa-spin\"></i> Downloading..."

\* downloadUrl of the listener
DownloadUrl(ref) == IF ref = "" THEN "/download/app" ELSE "/download/app?ref=" \o ref

GuardFrame == UNCHANGED <<pollVars, referral, form, toggle, oneShot, tokenSync>>

\* mutant of the listener's first statements: no test of data-downloading
GuardAccepts_Always(g) == TRUE

\* the test of the attribute that precedes everything but preventDefault
GuardAccepts(g) == ~g.downloading

\* mutant of the listener: originalText is read after the spinner is shown
GuardCaptured_AfterSpinner(g) == Spinner

\* const originalText = this.innerHTML
GuardCaptured(g) == g.innerHTML

\* a click on the link: the listener up to its await
GuardClick ==
  /\ page = "download"
  /\ guard.clicks < MaxGuardClicks
  /\ guard' =
       IF ~GuardAccepts(guard)
       THEN [guard EXCEPT !.clicks = @ + 1]
       ELSE [guard EXCEPT !.clicks = @ + 1,
                          !.accepted = @ + 1,
                          !.downloading = TRUE,
                          !.innerHTML = Spinner,
                          !.inFlight = Append(@, [url |-> DownloadUrl(guard.urlRef),
                                                  originalText |-> GuardCaptured(guard)])]
  /\ GuardFrame

\* mutant of the catch block: a rejected fetch is logged, nothing else
GuardNavigates_OnlyOnSuccess(rejected) == ~rejected

\* both the try block and the catch block assign window.location.href
GuardNavigates(rejected) == TRUE

\* a tracking fetch settles, resolved (whatever the HTTP status) or rejected:
\* the rest of the listener run, through the finally block
GuardFetchSettles ==
  /\ page = "download"
  /\ \E i \in 1..Len(guard.inFlight), rejected \in BOOLEAN :
       guard' = [guard EXCEPT
                   !.inFlight = SubSeq(@, 1, i - 1) \o SubSeq(@, i + 1, Len(@)),
                   !.navigations = IF GuardNavigates(rejected) THEN @ + 1 ELSE @,
                   !.errors = IF rejected THEN @ + 1 ELSE @,
                   !.timers = Append(@, guard.inFlight[i].originalText)]
  /\ GuardFrame

\* a timer of a finally block fires
GuardTimerFires ==
  /\ page = "download"
  /\ Len(guard.timers) > 0
  /\ guard' = [guard EXCEPT
                 !.innerHTML = Head(guard.timers),
                 !.downloading = FALSE,
                 !.timers = Tail(@)]
  /\ GuardFrame

GuardInit ==
  /\ page = "download"
  /\ SyncPagesInit
  /\ oneShot = NotLoaded
  /\ tokenSync = NotLoaded
  /\ referral = NotLoaded
  /\ \E ref \in RefCodes :
       guard = [urlRef |-> ref, downloading |-> FALSE, innerHTML |-> LinkText,
                inFlight |-> <<>>, timers |-> <<>>, navigations |-> 0, errors |-> 0,
                clicks |-> 0, accepted |-> 0]
  /\ form = NotLoaded
  /\ toggle = NotLoaded

GuardNext ==
  \/ GuardClick
  \/ GuardFetchSettles
  \/ GuardTimerFires

GuardSpec == GuardInit /\ [][GuardNext]_vars

\* fetches settle and timers fire
GuardFairSpec ==
  /\ GuardSpec
  /\ WF_vars(GuardFetchSettles)
  /\ WF_vars(GuardTimerFires)

(***************************************************************************)

(* Token change form: unnamed/part_002.  form is a record:                 *)
(*   disabled, className, textContent   the fetch button                   *)
(*   inFlight     fetch-token-metadata requests in flight                  *)
(*   pending      the handles of the timers that are pending               *)
(*   kind         what the callback of each handle set so far does         *)
(*   resetButtonTimeout   the variable of that name, 0 while undefined;    *)
(*                handles are numbered in the order of the setTimeout calls*)
(*   filled       responses whose data have been written to the fields     *)
(*   clicks       clicks on the button so far                              *)
(***************************************************************************)
\* clicks on the fetch button that the model follows
MaxFormClicks == 3

FormDefaultClass == "fetch-metadata-button"
FormDefaultText == "Fetch token metadata"      \* '获取代币元数据'

\* what a fetch-token-metadata request comes to: a body with status
\* success, a body with another status, or an exception (the request is
\* rejected or the body is not JSON)
FormOutcomes == {"success", "failure", "thrown"}

FormFrame == UNCHANGED <<pollVars, referral, guard, toggle, oneShot, tokenSync>>

\* mutant of clearTimeout: the timer stays pending
FormClearTimeout_Keeps(f) == f

\* clearTimeout(resetButtonTimeout)
FormClearTimeout(f) == [f EXCEPT !.pending = @ \ {f.resetButtonTimeout}]

\* resetButtonTimeout = setTimeout(callback, 3000)
FormSetTimeout(f, callback) ==
  [f EXCEPT !.resetButtonTimeout = @ + 1,
            !.pending = @ \cup {f.resetButtonTimeout + 1},
            !.kind = Append(@, callback)]

\* the finally block
FormFinally(f) == FormSetTimeout(FormClearTimeout(f), "enable and reset")

\* a click on the button while a field is empty: the validation branch,
\* its return and the finally block
FormClickInvalid ==
  /\ page = "form"
  /\ form.clicks < MaxFormClicks
  /\ ~form.disabled
  /\ form' = FormFinally(
       FormSetTimeout(
         FormClearTimeout([form EXCEPT !.clicks = @ + 1,
                                       !.className = "fetch-metadata-button error",
                                       !.textContent = "Select a chain and enter the contract address first"]),  \* '请先选择链并输入合约地址'
         "reset"))
  /\ FormFrame

\* a click on the button with both fields set: fetchMetadata up to its
\* first await
FormClickValid ==
  /\ page = "form"
  /\ form.clicks < MaxFormClicks
  /\ ~form.disabled
  /\ form' = [form EXCEPT !.clicks = @ + 1,
                          !.disabled = TRUE,
                          !.textContent = "Fetching...",        \* '获取中...'
                          !.inFlight = @ + 1]
  /\ FormFrame

\* a request settles: the rest of fetchMetadata, through the finally block
FormFetchSettles ==
  /\ page = "form"
  /\ form.inFlight > 0
  /\ \E outcome \in FormOutcomes :
       form' = FormFinally(
         CASE outcome = "success" ->
                [form EXCEPT !.inFlight = @ - 1,
                             !.filled = @ + 1,
                             !.className = "fetch-metadata-button success",
                             !.textContent = "Fetched"]     \* '获取成功'
           [] outcome = "failure" ->
                [form EXCEPT !.inFlight = @ - 1,
                             !.className = "fetch-metadata-button error",
                             !.textContent = "Fetch failed: " \o "message"]    \* '获取失败：' + result.message
           [] outcome = "thrown" ->
                [form EXCEPT !.inFlight = @ - 1,
                             !.className = "fetch-metadata-button error",
                             !.textContent = "Fetch failed, try again later"])    \* '获取失败，请稍后重试'
  /\ FormFrame

\* a pending timer fires
FormTimerFires ==
  /\ page = "form"
  /\ \E h \in form.pending :
       form' = IF form.kind[h] = "reset"
               THEN [form EXCEPT !.pending = @ \ {h},
                                 !.className = FormDefaultClass,
                                 !.textContent = FormDefaultText]
               ELSE [form EXCEPT !.pending = @ \ {h},
                                 !.disabled = FALSE,
                                 !.className = FormDefaultClass,
                                 !.textContent = FormDefaultText]
  /\ FormFrame

FormInit ==
  /\ page = "form"
  /\ SyncPagesInit
  /\ oneShot = NotLoaded
  /\ tokenSync = NotLoaded
  /\ referral = NotLoaded
  /\ guard = NotLoaded
  /\ form = [disabled |-> FALSE, className |-> FormDefaultClass,
             textContent |-> FormDefaultText, inFlight |-> 0, pending |-> {},
             kind |-> <<>>, resetButtonTimeout |-> 0, filled |-> 0, clicks |-> 0]
  /\ toggle = NotLoaded

FormNext ==
  \/ FormClickInvalid
  \/ FormClickValid
  \/ FormFetchSettles
  \/ FormTimerFires

FormSpec == FormInit /\ [][FormNext]_vars

\* requests settle and timers fire
FormFairSpec ==
  /\ FormSpec
  /\ WF_vars(FormFetchSettles)
  /\ WF_vars(FormTimerFires)

(***************************************************************************)

(* Token list: unnamed/part_001, the recommend button of one row.  toggle  *)
(* is a record:                                                            *)
(*   isRecommended   the state shown by the row when the page was rendered *)
(*   textContent, recommended   the label of the button, and whether its   *)
(*                class list holds 'recommended'                           *)
(*   server       the recommendation state the server holds for the token  *)
(*   requests     toggle-recommend requests on their way to the server     *)
(*   replies      what the requests came to, not yet handled by the page,  *)
(*                in the order in which the server produced them           *)
(*   alerts       alert() calls so far                                     *)
(*   clicks       clicks on the button so far                              *)
(* The view behind the URL is not part of the sources: it is modelled by   *)
(* what its name and the fields read from its reply say, a toggle of the   *)
(* stored flag that reports the new value.                                 *)
(***************************************************************************)
\* clicks on the recommend button that the model follows
MaxToggleClicks == 3

RecommendText == "Recommend"          \* '推荐'
UnrecommendText == "Unrecommend"      \* '取消推荐'

ToggleFrame == UNCHANGED <<pollVars, referral, guard, form, oneShot, tokenSync>>

\* button.onclick: toggleRecommend(tokenId, button) up to the fetch call;
\* the button stays enabled
ToggleClick ==
  /\ page = "tokens"
  /\ toggle.clicks < MaxToggleClicks
  /\ toggle' = [toggle EXCEPT !.clicks = @ + 1, !.requests = @ + 1]
  /\ ToggleFrame

\* the server handles a request: it toggles the flag and reports the new
\* value, or refuses and reports a failure
ToggleServerHandles ==
  /\ page = "tokens"
  /\ toggle.requests > 0
  /\ \E accepted \in BOOLEAN :
       toggle' =
         IF accepted
         THEN [toggle EXCEPT !.requests = @ - 1,
                             !.server = ~toggle.server,
                             !.replies = Append(@, [status |-> "success",
                                                    is_recommended |-> ~toggle.server])]
         ELSE [toggle EXCEPT !.requests = @ - 1,
                             !.replies = Append(@, [status |-> "error",
                                                    is_recommended |-> toggle.server])]
  /\ ToggleFrame

\* a request does not reach the server, or the answer is no JSON: the
\* promise is rejected
ToggleRequestFails ==
  /\ page = "tokens"
  /\ toggle.requests > 0
  /\ toggle' = [toggle EXCEPT !.requests = @ - 1,
                              !.replies = Append(@, [status |-> "rejected",
                                                     is_recommended |-> toggle.server])]
  /\ ToggleFrame

\* mutant of the then callback: the un-recommend branch leaves the class
ToggleApply_KeepsClass(t, reply) ==
  IF reply.status = "success"
  THEN IF reply.is_recommended
       THEN [t EXCEPT !.textContent = UnrecommendText, !.recommended = TRUE]
       ELSE [t EXCEPT !.textContent = RecommendText]
  ELSE [t EXCEPT !.alerts = @ + 1]

\* the then callback on a parsed reply, and the catch callback
ToggleApply(t, reply) ==
  IF reply.status = "success"
  THEN IF reply.is_recommended
       THEN [t EXCEPT !.textContent = UnrecommendText, !.recommended = TRUE]
       ELSE [t EXCEPT !.textContent = RecommendText, !.recommended = FALSE]
  ELSE [t EXCEPT !.alerts = @ + 1]

\* the replies without the i-th
ToggleWithout(replies, i) == SubSeq(replies, 1, i - 1) \o SubSeq(replies, i + 1, Len(replies))

\* the page handles a reply; replies arrive in any order
ToggleReplyArrives ==
  /\ page = "tokens"
  /\ \E i \in 1..Len(toggle.replies) :
       toggle' = ToggleApply([toggle EXCEPT !.replies = ToggleWithout(@, i)],
                             toggle.replies[i])
  /\ ToggleFrame

ToggleInit ==
  /\ page = "tokens"
  /\ SyncPagesInit
  /\ oneShot = NotLoaded
  /\ tokenSync = NotLoaded
  /\ referral = NotLoaded
  /\ guard = NotLoaded
  /\ form = NotLoaded
  /\ \E isRecommended \in BOOLEAN :
       toggle = [isRecommended |-> isRecommended,
                 textContent |-> IF isRecommended THEN UnrecommendText ELSE RecommendText,
                 recommended |-> isRecommended,
                 server |-> isRecommended,
                 requests |-> 0, replies |-> <<>>, alerts |-> 0, clicks |-> 0]

ToggleNext ==
  \/ ToggleClick
  \/ ToggleServerHandles
  \/ ToggleRequestFails
  \/ ToggleReplyArrives

ToggleSpec == ToggleInit /\ [][ToggleNext]_vars

(***************************************************************************)

(* Token form, one-shot sync button: staticfiles/admin/js/token_sync.js,   *)
(* unnamed/part_005 and unnamed/part_003.  The three scripts differ in how *)
(* they report the outcome and in when they create the button.  oneShot is *)
(* a record:                                                               *)
(*   script       which of the three scripts the page includes             *)
(*   created      the button has been created and has its click handler    *)
(*   createTimer  the 500 ms timer of part_003 is pending                  *)
(*   address      the value of #id_address                                 *)
(*   disabled, text   the button                                           *)
(*   statusText, statusColor   the status span (none in part_003)          *)
(*   name         the value of #id_name, for the fields a response fills   *)
(*   inFlight     sync-metadata requests in flight                         *)
(*   alerts       alert() calls so far (part_003)                          *)
(*   reloadPending   location.reload() has been called (part_003)          *)
(*   clicks       clicks on the button so far                              *)
(***************************************************************************)
\* clicks on the one-shot sync button that the model follows
MaxOneShotClicks == 3

OneShotScripts == {"staticfiles/admin/js/token_sync.js", "part_005", "part_003"}
OneShotLabel == "Sync metadata"       \* '同步元数据'
OneShotBusyLabel == "Syncing..."      \* '同步中...'
Addresses == {"", "0xabc"}

\* how $.ajax settles: success with a response that has data or has none,
\* error with a JSON body that has a message or without one
OneShotReplies ==
  {[success |-> TRUE, data |-> d, message |-> NoField] : d \in {NoField, "Coin"}}
    \cup {[success |-> FALSE, data |-> NoField, message |-> m] : m \in {NoField, "boom"}}

OneShotFrame == UNCHANGED <<pollVars, referral, guard, form, toggle, tokenSync>>

\* the page as the document-ready handler leaves it
OneShotLoaded(script, address, name) ==
  [script |-> script, created |-> (script # "part_003"),
   createTimer |-> (script = "part_003"), address |-> address,
   disabled |-> FALSE, text |-> OneShotLabel, statusText |-> "", statusColor |-> "",
   name |-> name, inFlight |-> 0, alerts |-> 0, reloadPending |-> FALSE, clicks |-> 0]

\* part_003: the body of the setTimeout callback creates the button
OneShotCreateTimerFires ==
  /\ page = "token form"
  /\ oneShot.createTimer
  /\ oneShot' = [oneShot EXCEPT !.createTimer = FALSE, !.created = TRUE]
  /\ OneShotFrame

\* the user changes the address field
OneShotEditsAddress ==
  /\ page = "token form"
  /\ \E a \in Addresses \ {oneShot.address} : oneShot' = [oneShot EXCEPT !.address = a]
  /\ OneShotFrame

\* the click handler
OneShotClick ==
  /\ page = "token form"
  /\ oneShot.created
  /\ ~oneShot.disabled
  /\ oneShot.clicks < MaxOneShotClicks
  /\ oneShot' =
       IF oneShot.address = ""
       THEN IF oneShot.script = "part_003"
            THEN [oneShot EXCEPT !.clicks = @ + 1, !.alerts = @ + 1]
            ELSE [oneShot EXCEPT !.clicks = @ + 1,
                                 !.statusText = "Enter the token address first",  \* '请先输入代币地址'
                                 !.statusColor = "red"]
       ELSE IF oneShot.script = "part_003"
            THEN [oneShot EXCEPT !.clicks = @ + 1,
                                 !.disabled = TRUE,
                                 !.text = OneShotBusyLabel,
                                 !.inFlight = @ + 1]
            ELSE [oneShot EXCEPT !.clicks = @ + 1,
                                 !.disabled = TRUE,
                                 !.text = OneShotBusyLabel,
                                 !.statusText = "",
                                 !.statusColor = "",
                                 !.inFlight = @ + 1]
  /\ OneShotFrame

\* the success callback
OneShotSuccess(o, reply) ==
  IF o.script = "part_003"
  THEN [o EXCEPT !.alerts = @ + 1, !.reloadPending = TRUE]
  ELSE IF reply.data # NoField
       THEN [o EXCEPT !.name = reply.data,
                      !.statusText = "Synced",                        \* '同步成功'
                      !.statusColor = "green"]
       ELSE [o EXCEPT !.statusText = "Synced, but no data returned",  \* '同步成功，但未返回数据'
                      !.statusColor = "orange"]

\* the error callback
OneShotError(o, reply) ==
  LET errorMsg == IF reply.message # NoField THEN reply.message
                  ELSE "unknown error"                                \* '未知错误'
  IN IF o.script = "part_003"
     THEN [o EXCEPT !.alerts = @ + 1]
     ELSE [o EXCEPT !.statusText = "Sync failed: " \o errorMsg,       \* '同步失败：'
                    !.statusColor = "red"]

\* mutant of the complete callback: the label is restored, the button
\* stays disabled
OneShotComplete_StaysDisabled(o) == [o EXCEPT !.text = OneShotLabel]

\* the complete callback
OneShotComplete(o) == [o EXCEPT !.disabled = FALSE, !.text = OneShotLabel]

\* a request settles: jQuery calls success or error, then complete
OneShotAjaxSettles ==
  /\ page = "token form"
  /\ oneShot.inFlight > 0
  /\ \E reply \in OneShotReplies :
       oneShot' = OneShotComplete(
         IF reply.success
         THEN OneShotSuccess([oneShot EXCEPT !.inFlight = @ - 1], reply)
         ELSE OneShotError([oneShot EXCEPT !.inFlight = @ - 1], reply))
  /\ OneShotFrame

\* part_003: the reload that the success callback asked for takes place;
\* the document is replaced and the script runs again
OneShotReloads ==
  /\ page = "token form"
  /\ oneShot.reloadPending
  /\ oneShot' = [OneShotLoaded(oneShot.script, oneShot.address, oneShot.name)
                   EXCEPT !.clicks = oneShot.clicks, !.alerts = oneShot.alerts]
  /\ OneShotFrame

OneShotInit ==
  /\ page = "token form"
  /\ IdxInit
  /\ MetaInit
  /\ clicks = 0
  /\ session = [s \in Sessions |-> "unused"]
  /\ JobInit
  /\ referral = NotLoaded
  /\ guard = NotLoaded
  /\ form = NotLoaded
  /\ toggle = NotLoaded
  /\ \E script \in OneShotScripts, a \in Addresses : oneShot = OneShotLoaded(script, a, "")
  /\ tokenSync = NotLoaded

OneShotNext ==
  \/ OneShotCreateTimerFires
  \/ OneShotEditsAddress
  \/ OneShotClick
  \/ OneShotAjaxSettles
  \/ OneShotReloads

OneShotSpec == OneShotInit /\ [][OneShotNext]_vars

(***************************************************************************)

(* Token form, sync button of wallet/static/admin/js/token_sync.js.        *)
(* tokenSync is a record:                                                  *)
(*   address, chain   the values of #id_address and #id_chain              *)
(*   disabled     syncBtn.disabled                                         *)
(*   statusText, statusColor   the status span                             *)
(*   fields       the form fields a response fills: a text input and the   *)
(*                checkbox                                                 *)
(*   inFlight     requests in flight                                       *)
(*   alerts       alert() calls so far                                     *)
(*   clicks       clicks on the button so far                              *)
(***************************************************************************)
\* clicks on the sync button of the fetch script that the model follows
MaxSyncClicks == 3

SyncAddresses == {"", " ", "0xabc"}
SyncChains == {"", "ETH"}

\* String.prototype.trim on the addresses of the model
Trim(a) == IF a = " " THEN "" ELSE a

\* data.data of a response: missing, with every field missing, or filled
\* (is_verified is the JSON value true)
SyncData == {[name |-> NoField, is_verified |-> NoField],
             [name |-> "Coin", is_verified |-> "true"]}
NoSyncData == [name |-> NoField, is_verified |-> NoField]

\* how the request settles: fetch rejects; the body is not JSON, whatever
\* the HTTP status; or the body parses, with response.ok or not, any
\* status, data present or missing, a message or none
TokenSyncReplies ==
  {[kind |-> "network_error", ok |-> FALSE, status |-> NoField, hasData |-> FALSE,
    data |-> NoSyncData, message |-> NoField]}
  \cup {[kind |-> "bad_json", ok |-> ok, status |-> NoField, hasData |-> FALSE,
         data |-> NoSyncData, message |-> NoField] : ok \in BOOLEAN}
  \cup {[kind |-> "json", ok |-> ok, status |-> st, hasData |-> TRUE, data |-> d,
         message |-> m] :
          ok \in BOOLEAN, st \in {"success", "error", NoField}, d \in SyncData,
          m \in {NoField, "boom"}}
  \cup {[kind |-> "json", ok |-> ok, status |-> st, hasData |-> FALSE, data |-> NoSyncData,
         message |-> NoField] : ok \in BOOLEAN, st \in {"success", "error"}}

TokenSyncFrame == UNCHANGED <<pollVars, referral, guard, form, toggle, oneShot>>

\* the user changes the address or the chain
TokenSyncEdits ==
  /\ page = "token sync form"
  /\ \E a \in SyncAddresses, c \in SyncChains :
       /\ <<a, c>> # <<tokenSync.address, tokenSync.chain>>
       /\ tokenSync' = [tokenSync EXCEPT !.address = a, !.chain = c]
  /\ TokenSyncFrame

\* the click listener up to its first await
TokenSyncClick ==
  /\ page = "token sync form"
  /\ ~tokenSync.disabled
  /\ tokenSync.clicks < MaxSyncClicks
  /\ tokenSync' =
       IF Trim(tokenSync.address) = "" \/ tokenSync.chain = ""
       THEN [tokenSync EXCEPT !.clicks = @ + 1, !.alerts = @ + 1]
       ELSE [tokenSync EXCEPT !.clicks = @ + 1,
                              !.statusText = "Syncing...",       \* '同步中...'
                              !.statusColor = "#666",
                              !.disabled = TRUE,
                              !.inFlight = @ + 1]
  /\ TokenSyncFrame

\* error.message in the catch block
TokenSyncErrorMessage(reply) ==
  CASE reply.kind = "network_error" -> "Failed to fetch"
    [] reply.kind = "bad_json" -> "Unexpected token"
    [] reply.kind = "json" /\ reply.ok /\ reply.status = "success" ->
         "Cannot read properties of undefined"
    [] OTHER -> IF reply.message # NoField THEN reply.message
                ELSE "Sync failed"                               \* '同步失败'

\* input.value = value || '' for the text input, input.checked = value for
\* the checkbox
TokenSyncFields(data) ==
  [name |-> IF data.name = NoField THEN "" ELSE data.name,
   is_verified |-> (data.is_verified = "true")]

\* mutant of the listener: response.ok is not tested
TokenSyncApply_IgnoresOk(t, reply) ==
  IF reply.kind = "json" /\ reply.status = "success" /\ reply.hasData
  THEN [t EXCEPT !.inFlight = @ - 1,
                 !.fields = TokenSyncFields(reply.data),
                 !.statusText = "Synced",
                 !.statusColor = "green",
                 !.disabled = FALSE]
  ELSE [t EXCEPT !.inFlight = @ - 1,
                 !.statusText = "Sync failed: " \o TokenSyncErrorMessage(reply),
                 !.statusColor = "red",
                 !.disabled = FALSE]

\* the listener from the settling of the request on: the rest of the try
\* block, or the catch block, and the finally block
TokenSyncApply(t, reply) ==
  IF reply.kind = "json" /\ reply.ok /\ reply.status = "success" /\ reply.hasData
  THEN [t EXCEPT !.inFlight = @ - 1,
                 !.fields = TokenSyncFields(reply.data),
                 !.statusText = "Synced",                        \* '同步成功'
                 !.statusColor = "green",
                 !.disabled = FALSE]
  ELSE [t EXCEPT !.inFlight = @ - 1,
                 !.statusText = "Sync failed: " \o TokenSyncErrorMessage(reply),  \* `同步失败: ${error.message}`
                 !.statusColor = "red",
                 !.disabled = FALSE]

\* a request settles
TokenSyncSettles ==
  /\ page = "token sync form"
  /\ tokenSync.inFlight > 0
  /\ \E reply \in TokenSyncReplies : tokenSync' = TokenSyncApply(tokenSync, reply)
  /\ TokenSyncFrame

TokenSyncInit ==
  /\ page = "token sync form"
  /\ IdxInit
  /\ MetaInit
  /\ clicks = 0
  /\ session = [s \in Sessions |-> "unused"]
  /\ JobInit
  /\ referral = NotLoaded
  /\ guard = NotLoaded
  /\ form = NotLoaded
  /\ toggle = NotLoaded
  /\ oneShot = NotLoaded
  /\ \E a \in SyncAddresses, c \in SyncChains :
       tokenSync = [address |-> a, chain |-> c, disabled |-> FALSE, statusText |-> "",
                    statusColor |-> "", fields |-> [name |-> "Old", is_verified |-> FALSE],
                    inFlight |-> 0, alerts |-> 0, clicks |-> 0]

TokenSyncNext ==
  \/ TokenSyncEdits
  \/ TokenSyncClick
  \/ TokenSyncSettles

TokenSyncSpec == TokenSyncInit /\ [][TokenSyncNext]_vars

(***************************************************************************)

(* The metadata page against a job whose reported progress never           *)
(* decreases.  The server answers a status request with the progress it    *)
(* has when the request is issued; the responses arrive in any order.      *)
(***************************************************************************)
\* the job advances on the server
JobAdvances ==
  /\ page = "metadata"
  /\ \E p \in Progresses : p > job /\ job' = p
  /\ UNCHANGED <<page, idxVars, metaVars, obsVars, stamps, lastOrigin, widgetVars>>

\* an active interval timer fires: checkSyncStatus(), answered with job
JobTick ==
  /\ page = "metadata"
  /\ InFlight < MaxInFlight
  /\ \E t \in intervals :
       /\ checkSyncStatus(t)
       /\ stamps' = stamps (+) SetToBag({<<t, job>>})
  /\ UNCHANGED <<page, idxVars, syncButton, metaProgressBar, statusContainer,
                 statusMessageText, statusTime, statusCheckInterval, intervals,
                 metaPosts, obsVars, job, lastOrigin, widgetVars>>

\* a status response arrives: success callback of checkSyncStatus, the job
\* being idle or running and the progress the one stamped on the request
JobReply ==
  /\ page = "metadata"
  /\ \E o \in Origins, p \in Progresses :
       /\ BagIn(<<o, p>>, stamps)
       /\ stamps' = stamps (-) SetToBag({<<o, p>>})
       /\ metaFetches' = [metaFetches EXCEPT ![o] = @ - 1]
       /\ lastOrigin' = o
       /\ \E reply \in StatusReplies :
            /\ reply.kind = "json"
            /\ reply.data.status \in {"idle", "running"}
            /\ reply.data.progress = p
            /\ session' = IF o = PageLoad THEN session
                          ELSE [session EXCEPT ![o] = Observed(@, reply)]
            /\ updateStatusUI(reply.data)
  /\ UNCHANGED <<page, idxVars, statusCheckInterval, metaPosts, clicks, job, widgetVars>>

JobNext ==
  \/ MetaClick
  \/ MetaPostSettles
  \/ JobAdvances
  \/ JobTick
  \/ JobReply

\* the tab shows the metadata page
MetaTab == Init /\ page = "metadata"

JobSpec == MetaTab /\ [][JobNext]_vars

(***************************************************************************)
(* The rendering of a status snapshot as a function of what the page       *)
(* shows.                                                                  *)
(***************************************************************************)
\* what the index page shows
IdxDom == [bar |-> progressBar, message |-> statusMessage, disabled |-> button]

\* checkStatus's rendering of a parsed status reply
RenderIdx(data, dom) ==
  CASE data.status = "success" ->
         [bar |-> 100,
          message |-> [textContent |-> data.message,
                       className |-> "status-message status-success",
                       display |-> "block"],
          disabled |-> FALSE]
    [] data.status = "error" ->
         [bar |-> dom.bar,
          message |-> [textContent |-> "Sync failed: " \o data.message,
                       className |-> "status-message status-error",
                       display |-> "block"],
          disabled |-> FALSE]
    [] OTHER ->
         [bar |-> IF data.progress # 0 THEN data.progress ELSE dom.bar,
          message |-> IF data.message # ""
                      THEN [textContent |-> data.message,
                            className |-> "status-message",
                            display |-> "block"]
                      ELSE dom.message,
          disabled |-> dom.disabled]

\* what the metadata page shows, and its active timers
MetaDom ==
  [bar |-> metaProgressBar, text |-> statusMessageText, class |-> statusContainer,
   time |-> statusTime, disabled |-> syncButton, timers |-> intervals]

\* updateStatusUI(status) with statusCheckInterval = handle
RenderMeta(status, dom, handle) ==
  [bar |-> status.progress,
   text |-> IF status.message # "" THEN status.message ELSE "Unknown status",
   class |-> "status-container status-" \o status.status,
   time |-> IF status.timestamp # NoField
            THEN "Last updated: " \o ToLocaleString(status.timestamp)
            ELSE "",
   disabled |-> (status.status = "running"),
   timers |-> IF status.status = "completed" \/ status.status = "error"
              THEN dom.timers \ {handle}
              ELSE dom.timers]

(***************************************************************************)
(* The index page alone, with the scheduling the browser and the server    *)
(* give it: a pending timer fires, an issued status fetch settles, and a   *)
(* server that reports success or error from some point on gets such a     *)
(* reply handled by any session that keeps polling.                        *)
(***************************************************************************)
IdxNext ==
  \/ IdxClick
  \/ IdxPostSettles
  \/ IdxStatusSettles
  \/ IdxTimeoutFires

\* a polling session handles a status reply with status success or error
IdxTerminalReply ==
  /\ IdxStatusSettles
  /\ \E s \in Sessions :
       /\ session[s] \in {"polling", "answered"}
       /\ session'[s] \in {"success", "error"}

\* the tab shows the index page
IdxTab == Init /\ page = "index"

IdxFairSpec ==
  /\ IdxTab
  /\ [][IdxNext]_vars
  /\ WF_vars(IdxTimeoutFires)
  /\ WF_vars(IdxStatusSettles)
  /\ SF_vars(IdxTerminalReply)

(***************************************************************************)
(* Both pages against a server whose job never ends: every status request *)
(* is answered 2xx with a parsed status that is not terminal.  Timers      *)
(* fire and requests settle.                                               *)
(***************************************************************************)
\* a status fetch of the index page is answered with a status that is
\* neither success nor error: checkStatus takes its else branch
IdxRunningReply ==
  /\ IdxStatusSettles
  /\ Sum(idxTimeouts', Sessions) > Sum(idxTimeouts, Sessions)

\* a status request of the metadata page is answered idle or running
MetaRunningReply ==
  /\ MetaStatusSettles
  /\ statusContainer' \in {"status-container status-idle", "status-container status-running"}

\* the interval timer t fires
MetaTick(t) ==
  /\ MetaIntervalFires
  /\ metaFetches'[t] > metaFetches[t]

PollForeverNext ==
  \/ IdxClick
  \/ IdxPostSettles
  \/ IdxRunningReply
  \/ IdxTimeoutFires
  \/ MetaClick
  \/ MetaPostSettles
  \/ MetaRunningReply
  \/ MetaIntervalFires

\* a timer cannot fire while MaxInFlight requests are outstanding, so each
\* timer's fairness is strong
PollForeverSpec ==
  /\ Init
  /\ [][PollForeverNext]_vars
  /\ WF_vars(IdxTimeoutFires)
  /\ WF_vars(IdxRunningReply)
  /\ WF_vars(MetaRunningReply)
  /\ \A t \in Sessions : SF_vars(MetaTick(t))

(***************************************************************************)
(* Properties.                                                             *)
(***************************************************************************)
\* a session that was triggered and has had no terminal event handled
Live == {"trigger", "polling", "answered"}
\* the terminal events of the status poller
PollTerminal == {"success", "error", "poll_failed", "first_poll_failed"}
PollFailed == {"poll_failed", "first_poll_failed"}

IdxErrorShown(sm) ==
  sm.className = "status-message status-error" /\ sm.display = "block"

\* C1: index page: a status fetch is issued only after the previous one has
\* been handled by checkStatus: at most one status fetch is in flight or
\* scheduled at any time, over all sessions of the page.
C1_IndexPollsOneAtATime ==
  Sum(idxFetches, Sessions) + Sum(idxTimeouts, Sessions) <= 1

\* a later poll of a session is in flight, an earlier one having been handled
C1_Witness ==
  \E s \in Sessions : session[s] = "answered" /\ idxFetches[s] = 1

\* C2: metadata page: within one session status fetch N+1 is issued only
\* after fetch N has been handled: no session has two status fetches in
\* flight, whatever the latency of the responses.
C2_MetaPollsOneAtATime ==
  \A s \in Sessions : metaFetches[s] <= 1

\* C3: index page: once a terminal event of a session has been handled
\* (status success or error, a failed or non-2xx status fetch) the session
\* has no status fetch in flight and none scheduled, for ever after; a
\* status fetch belongs to a session whose POST succeeded and that has had
\* no terminal event.
C3_IndexTerminalIsSticky ==
  \A s \in Sessions :
    idxFetches[s] + idxTimeouts[s] > 0 => session[s] \in {"polling", "answered"}

\* after a session has ended, the next click's session is polling
C3_Witness ==
  \E s, n \in Sessions :
    /\ s < n
    /\ session[s] \in PollTerminal
    /\ idxFetches[s] = 0 /\ idxTimeouts[s] = 0
    /\ session[n] = "polling" /\ idxFetches[n] = 1

\* C4: metadata page: once a status response with status success or error
\* has been handled for a session, its polling timer is stopped, so that no
\* further status fetch is issued for the session.
C4_MetaTerminalStopsTimer ==
  \A s \in Sessions : session[s] \in {"success", "error"} => s \notin intervals

\* C5: index page: in every session lifecycle the button is set disabled
\* exactly once, at the click, and set enabled exactly once, on the terminal
\* event or the trigger failure; it is disabled in between and enabled
\* afterwards.  Lifecycles do not overlap.
C5_IndexButtonOncePerLifecycle ==
  page = "index" =>
    /\ clicks = 0 => ~button /\ buttonWrites = [disabled |-> 0, enabled |-> 0]
    /\ \A s \in Sessions :
         /\ s < clicks => session[s] \in Terminal
         /\ s = clicks /\ session[s] \in Live =>
              button /\ buttonWrites = [disabled |-> 1, enabled |-> 0]
         /\ s = clicks /\ session[s] \in Terminal =>
              ~button /\ buttonWrites = [disabled |-> 1, enabled |-> 1]

\* a second lifecycle has ended after polling
C5_Witness ==
  /\ page = "index"
  /\ clicks = 2
  /\ session[2] \in PollTerminal
  /\ ~button /\ buttonWrites = [disabled |-> 1, enabled |-> 1]

\* C6: metadata page: the button is disabled from the click until the
\* session's terminal event: it is disabled whenever the polling timer
\* started by that click is active and the session has had no terminal
\* event, whatever status the responses carry.
C6_MetaButtonDisabledWhileActive ==
  \A s \in Sessions : (s \in intervals /\ session[s] \in Live) => syncButton

\* C7: metadata page: the button is never left disabled: with no trigger
\* request and no status fetch in flight and no timer active, it is enabled.
C7_MetaButtonNeverLeftDisabled ==
  (metaPosts = {} /\ InFlight = 0 /\ intervals = {}) => ~syncButton

\* C8: metadata page: at most one interval timer is active at any time, the
\* active timer is the one statusCheckInterval names, and a trigger POST is
\* never issued while a timer is active.
C8_MetaOneTimerWithHandle ==
  [][ /\ Cardinality(intervals') <= 1
      /\ intervals' \subseteq {statusCheckInterval'}
      /\ (metaPosts' \ metaPosts # {} => intervals = {}) ]_vars

\* C9: both pages: when the trigger POST of a session fails, the handler
\* renders an error message and re-enables the button, and the session has
\* no timer and no status fetch then or at any later time.
C9_TriggerFailureStartsNoPolling ==
  [][ \A s \in Sessions :
        session'[s] = "trigger_failed" =>
          /\ idxFetches'[s] = 0 /\ idxTimeouts'[s] = 0
          /\ metaFetches'[s] = 0 /\ s \notin intervals'
          /\ session[s] = "trigger" =>
               IF page = "index"
               THEN IdxErrorShown(statusMessage') /\ ~button'
               ELSE /\ statusContainer' = "status-container status-error"
                    /\ statusMessageText' \in {"Failed to start sync: boom",
                                               "Failed to start sync: Unknown error"}
                    /\ ~syncButton' ]_vars

\* metadata page: the first trigger failed, the retry is polling
C9_Witness ==
  /\ page = "metadata"
  /\ session[1] = "trigger_failed"
  /\ session[2] = "answered" /\ 2 \in intervals /\ metaFetches[2] = 1

\* C10: both pages: a failed status fetch ends its session: the handler
\* renders an error and re-enables the button, the session starts no status
\* fetch afterwards, and when the failure is the first reply of the session
\* no other attempt of the session is outstanding.
C10_PollFailureIsFatal ==
  [][ \A s \in Sessions :
        /\ session'[s] \in PollFailed =>
             idxTimeouts'[s] = 0 /\ s \notin intervals'
        /\ session'[s] = "first_poll_failed" =>
             idxFetches'[s] = 0 /\ metaFetches'[s] = 0
        /\ (session'[s] \in PollFailed /\ session[s] \notin PollFailed) =>
             IF page = "index"
             THEN IdxErrorShown(statusMessage') /\ ~button'
             ELSE statusContainer' = "status-container status-error" /\ ~syncButton' ]_vars

\* a session whose trigger POST has returned successfully
Triggered == {"polling", "answered"} \cup PollTerminal

\* C11 as claimed: on both pages a status request is in flight only when a
\* trigger POST of the page has returned successfully before.
C11_NoStatusFetchBeforeTrigger ==
  (Sum(idxFetches, Sessions) + InFlight > 0) => \E s \in Sessions : session[s] \in Triggered

\* C11 amended: the metadata page issues one status request at page load;
\* on both pages every status request after page load is issued for a
\* session whose trigger POST has returned successfully, and a timer is
\* armed only for such a session.
C11_StatusFetchOnlyAfterTrigger ==
  [][ /\ idxFetches' # idxFetches =>
           \A s \in Sessions : idxFetches'[s] > idxFetches[s] => session'[s] \in Triggered
      /\ metaFetches' # metaFetches =>
           /\ metaFetches'[PageLoad] <= metaFetches[PageLoad]
           /\ \A s \in Sessions : metaFetches'[s] > metaFetches[s] => session'[s] \in Triggered
      /\ idxTimeouts' # idxTimeouts =>
           \A s \in Sessions : idxTimeouts'[s] > idxTimeouts[s] => session'[s] \in Triggered
      /\ intervals' # intervals =>
           \A s \in intervals' \ intervals : session'[s] \in Triggered ]_vars

\* metadata page: the page-load request has been answered and a request of
\* a triggered session is in flight
C11_Witness ==
  /\ page = "metadata"
  /\ metaFetches[PageLoad] = 0
  /\ \E s \in Sessions : session[s] = "polling" /\ metaFetches[s] = 1

\* the step is checkStatus of session s resuming with reply
IdxHandles(s, reply) ==
  /\ page = "index"
  /\ idxFetches[s] > 0
  /\ idxFetches' = [idxFetches EXCEPT ![s] = @ - 1]
  /\ IdxCheckStatusResume(s, reply)

\* the step is the callback of a status request of origin o, settled with reply
MetaHandles(o, reply) ==
  /\ page = "metadata"
  /\ metaFetches[o] > 0
  /\ metaFetches' = [metaFetches EXCEPT ![o] = @ - 1]
  /\ IF reply.kind = "json" THEN updateStatusUI(reply.data) ELSE MetaStatusError(reply)

\* the parsed status replies whose status is one of vs
StatusIs(vs) == {r \in StatusReplies : r.kind = "json" /\ r.data.status \in vs}

\* the 2xx status replies whose body parses
ParsedReplies == StatusIs(Statuses)

\* C12: on both pages, handling a status response with status success sets
\* the progress display to 100 whatever progress the payload carries, shows
\* the payload message and leaves the start button enabled.
C12_SuccessShowsComplete ==
  [][ \A r \in StatusIs({"success"}) :
        /\ \A s \in Sessions : IdxHandles(s, r) =>
             /\ progressBar' = 100
             /\ statusMessage'.textContent = r.data.message
             /\ ~button'
        /\ \A o \in Origins : MetaHandles(o, r) =>
             /\ metaProgressBar' = 100
             /\ statusMessageText' = r.data.message
             /\ ~syncButton' ]_vars

\* C13: on both pages, after a response with status idle or running has
\* been handled the displayed progress is the progress of that response and
\* the displayed message is its message, progress 0 and the empty message
\* included.
C13_NonTerminalIsDisplayed ==
  [][ \A r \in StatusIs({"idle", "running"}) :
        /\ \A s \in Sessions : IdxHandles(s, r) =>
             /\ progressBar' = r.data.progress
             /\ statusMessage'.textContent = r.data.message
        /\ \A o \in Origins : MetaHandles(o, r) =>
             /\ metaProgressBar' = r.data.progress
             /\ statusMessageText' = r.data.message ]_vars

\* C14: on both pages, a status response with status error ends the session
\* in Error: the message shown comes from the payload message (the index
\* page prefixes it, the metadata page shows it whenever it is not empty),
\* the start button is enabled, and the session has no timer left that
\* would issue a further status fetch.
C14_ErrorEndsSession ==
  [][ \A r \in StatusIs({"error"}) : \A s \in Sessions :
        /\ IdxHandles(s, r) =>
             /\ statusMessage'.textContent = "Sync failed: " \o r.data.message
             /\ ~button'
             /\ idxTimeouts'[s] = 0
        /\ MetaHandles(s, r) =>
             /\ r.data.message # "" => statusMessageText' = r.data.message
             /\ ~syncButton'
             /\ s \notin intervals' ]_vars

\* status values outside the contract's four
OtherStatuses == Statuses \ {"idle", "running", "success", "error", NoField}

\* C15: on both pages, a 2xx status response whose status is present but is
\* none of idle, running, success, error is treated as still running: the
\* session enters no terminal state and its polling goes on.  The index
\* page keeps the button disabled and schedules the next fetch; the
\* metadata page keeps every timer it has.
C15_OtherStatusKeepsPolling ==
  [][ \A r \in StatusIs(OtherStatuses) : \A s \in Sessions :
        /\ IdxHandles(s, r) => (button' /\ idxTimeouts'[s] = idxTimeouts[s] + 1)
        /\ MetaHandles(s, r) => intervals' = intervals ]_vars

\* 2xx status replies whose body does not parse or has no status field
Malformed == {r \in StatusReplies : r.kind = "bad_json"} \cup StatusIs({NoField})

\* C16: on both pages, a 2xx status response whose body cannot be parsed or
\* that has no status field is handled as an error: an error is rendered,
\* the start button is enabled, and the session is left with no scheduled
\* fetch and no timer.
C16_MalformedIsError ==
  [][ \A r \in Malformed : \A s \in Sessions :
        /\ IdxHandles(s, r) =>
             /\ IdxErrorShown(statusMessage')
             /\ ~button'
             /\ idxTimeouts'[s] = 0
        /\ MetaHandles(s, r) =>
             /\ statusContainer' = "status-container status-error"
             /\ ~syncButton'
             /\ s \notin intervals' ]_vars

\* C17: index page: when the trigger POST of a click has succeeded, every
\* issued status fetch settles and the server from some point on reports
\* success or error, the session reaches a terminal state in which it has
\* no fetch in flight and no timer pending and the start button is enabled.
C17_IndexSessionTerminates ==
  \A s \in Sessions :
    (session[s] = "polling") ~>
      (/\ session[s] \in PollTerminal
       /\ idxFetches[s] = 0
       /\ idxTimeouts[s] = 0
       /\ ~button)

\* a session has ended with status success, nothing is pending and the
\* button is enabled
C17_Witness ==
  /\ page = "index"
  /\ \E s \in Sessions : session[s] = "success" /\ idxFetches[s] = 0 /\ idxTimeouts[s] = 0
  /\ Sum(idxFetches, Sessions) + Sum(idxTimeouts, Sessions) = 0
  /\ idxPost = 0
  /\ ~button

C19_RenderIsIdempotent ==
  [][ /\ \A s \in Sessions : idxFetches'[s] < idxFetches[s] =>
           \A r \in ParsedReplies : IdxHandles(s, r) =>
             /\ IdxDom' = RenderIdx(r.data, IdxDom)
             /\ RenderIdx(r.data, IdxDom') = IdxDom'
             /\ idxFetches'[s] = 0
             /\ idxTimeouts'[s] = IF r.data.status \in {"success", "error"} THEN 0 ELSE 1
      /\ \A o \in Origins : metaFetches'[o] < metaFetches[o] =>
           \A r \in ParsedReplies : MetaHandles(o, r) =>
             /\ MetaDom' = RenderMeta(r.data, MetaDom, statusCheckInterval)
             /\ RenderMeta(r.data, MetaDom', statusCheckInterval') = MetaDom' ]_vars

\* metadata page: a running snapshot of a session is on display, the
\* session's timer is armed and a further response of it is outstanding
C19_Witness ==
  /\ page = "metadata"
  /\ statusContainer = "status-container status-running"
  /\ metaProgressBar = 55
  /\ statusMessageText = "done"
  /\ syncButton
  /\ \E s \in Sessions : session[s] = "answered" /\ s \in intervals /\ metaFetches[s] = 1

\* C20: metadata page: when the progress the server reports never
\* decreases, the progress values rendered during one poll session never
\* decrease, in whatever order the status responses arrive: a response of
\* session s rendered right after another response of s never lowers the bar.
C20_RenderedProgressMonotone ==
  [][ \A s \in Sessions :
        (lastOrigin = s /\ lastOrigin' = s /\ metaFetches'[s] < metaFetches[s])
          => metaProgressBar' >= metaProgressBar ]_vars

(***************************************************************************)
(* Landing page with referral tracking                                     *)
(***************************************************************************)
\* the device ids carried by the requests of a history
IdsOf(history) == {history[i] : i \in 1..Len(history)}
\* the requests a step appends to a history
Appended(old, new) == {new[i] : i \in (Len(old) + 1)..Len(new)}

\* C21: a record_web_download request is sent on a click only when both a
\* temporary device id and a referral code are in local storage, and every
\* such request is preceded by a record_visit request with the same device id.
C21_DownloadOnlyAfterVisit ==
  [][ referral'.downloads # referral.downloads =>
        /\ referral'.clicks = referral.clicks + 1
        /\ referral.storageDev # 0
        /\ referral.storageRef # ""
        /\ Appended(referral.downloads, referral'.downloads) \subseteq IdsOf(referral.visits) ]_vars

\* a click has sent a download request although the URL of the page that is
\* loaded has no ref parameter: both items came from local storage
C21_Witness ==
  /\ referral.loads = 2
  /\ referral.urlRef = ""
  /\ Len(referral.downloads) > 0
  /\ referral.clicks = 1

C23_DeviceIdIsStable ==
  [][ referral.storageDev # 0 =>
        /\ referral'.storageDev = referral.storageDev
        /\ Appended(referral.visits, referral'.visits) \subseteq {referral.storageDev}
        /\ Appended(referral.downloads, referral'.downloads) \subseteq {referral.storageDev} ]_vars

\* the page has been loaded twice, and the visit recorded by the second load
\* and a download carry the id that the first load generated
C23_Witness ==
  /\ referral.loads = 2
  /\ referral.uuids = 1
  /\ Len(referral.visits) >= 2
  /\ referral.visits[Len(referral.visits)] = referral.visits[1]
  /\ referral.storageDev = referral.visits[1]
  /\ Len(referral.downloads) > 0

(***************************************************************************)
(* Landing page with download guard                                        *)
(***************************************************************************)
\* a step in which the link is clicked
GuardClicked == guard'.clicks = guard.clicks + 1

\* C24: while the link has data-downloading="true" a click issues no
\* tracking fetch and no navigation; the attribute is set by the accepted
\* click and removed only by the timer that was scheduled after the fetch of
\* that click had settled, so at most one tracking fetch is in flight.
C24_GuardHoldsUntilTimer ==
  /\ [][ /\ (GuardClicked /\ guard.downloading) =>
              guard' = [guard EXCEPT !.clicks = @ + 1]
         /\ (GuardClicked /\ ~guard.downloading) =>
              /\ guard'.downloading
              /\ Len(guard'.inFlight) = 1
         /\ (guard.downloading /\ ~guard'.downloading) =>
              /\ guard.inFlight = <<>>
              /\ Len(guard.timers) = 1
              /\ guard'.timers = <<>> ]_vars
  /\ [](Len(guard.inFlight) <= 1)
  /\ [](guard.downloading <=> Len(guard.inFlight) + Len(guard.timers) = 1)

\* the link was clicked again while the fetch of the accepted click was in
\* flight, and nothing but the click count changed
C24_Witness ==
  /\ guard.downloading
  /\ guard.clicks = 3
  /\ guard.accepted = 1
  /\ Len(guard.inFlight) = 1
  /\ guard.navigations = 0

\* C25: every accepted click leads to exactly one navigation to the static
\* APK URL, made when the tracking fetch of the click settles, resolved or
\* rejected.
C25_OneNavigationPerAcceptedClick ==
  /\ [](guard.navigations + Len(guard.inFlight) = guard.accepted)
  /\ [][ guard'.navigations # guard.navigations =>
           /\ guard'.navigations = guard.navigations + 1
           /\ Len(guard'.inFlight) = Len(guard.inFlight) - 1
           /\ guard'.accepted = guard.accepted ]_vars
  /\ \A n \in 1..MaxGuardClicks :
       (guard.accepted >= n) ~> (guard.navigations >= n)

\* two accepted clicks have navigated, one after a resolved fetch and one
\* after a rejected fetch
C25_Witness ==
  /\ guard.accepted = 2
  /\ guard.navigations = 2
  /\ guard.errors = 1

\* C26: when the guard of the link is released the content of the link is
\* what it was before the accepted click; the spinner markup is never
\* captured as the original content, and the link never stays in the
\* Downloading state.
C26_ContentIsRestored ==
  /\ [](~guard.downloading => guard.innerHTML = LinkText)
  /\ [][ (guard.downloading /\ ~guard'.downloading) =>
           guard'.innerHTML = LinkText ]_vars
  /\ [](\A i \in 1..Len(guard.inFlight) : guard.inFlight[i].originalText # Spinner)
  /\ [](\A i \in 1..Len(guard.timers) : guard.timers[i] # Spinner)
  /\ (guard.innerHTML = Spinner) ~> (guard.innerHTML = LinkText /\ ~guard.downloading)

\* the guard has been taken and released twice, with clicks in between that
\* it turned away, and the link shows its text again
C26_Witness ==
  /\ guard.accepted = 2
  /\ guard.clicks = 4
  /\ ~guard.downloading
  /\ guard.innerHTML = LinkText
  /\ guard.timers = <<>>
  /\ guard.inFlight = <<>>

(***************************************************************************)
(* Token change form                                                       *)
(***************************************************************************)
\* the button as it is created
FormButtonIsDefault ==
  /\ ~form.disabled
  /\ form.className = FormDefaultClass
  /\ form.textContent = FormDefaultText

\* C27: the fetch button is disabled whenever a fetch-token-metadata request
\* is in flight, whatever the clicks before it, so two such requests are
\* never in flight at once.
C27_DisabledWhileInFlight ==
  /\ form.inFlight > 0 => form.disabled
  /\ form.inFlight <= 1

\* C28: at most one reset timer is pending at any time, and after every
\* invocation of fetchMetadata, however it ends, the button returns to the
\* enabled state with the default class and the default label.
C28_ButtonIsReset ==
  /\ [](Cardinality(form.pending) <= 1)
  /\ [][ form'.resetButtonTimeout # form.resetButtonTimeout =>
           form'.pending = {form'.resetButtonTimeout} ]_vars
  /\ ~FormButtonIsDefault ~> (FormButtonIsDefault /\ form.pending = {})

\* the button is back in its initial state after invocations that ended in
\* the validation branch and in a successful response
C28_Witness ==
  /\ FormButtonIsDefault
  /\ form.clicks = 3
  /\ form.filled >= 1
  /\ form.resetButtonTimeout >= 4
  /\ form.pending = {}
  /\ form.inFlight = 0

(***************************************************************************)
(* Token list                                                              *)
(***************************************************************************)
\* a step in which the page handles the reply r
ToggleHandles(r) ==
  \E i \in 1..Len(toggle.replies) :
    /\ toggle.replies[i] = r
    /\ toggle'.replies = ToggleWithout(toggle.replies, i)

\* C29: once all toggle requests issued for a token's button have completed,
\* the button shows the recommendation state the server holds for the token,
\* for every number of clicks and every arrival order of the responses.
C29_ButtonShowsServerState ==
  (toggle.requests = 0 /\ toggle.replies = <<>>) =>
    /\ toggle.recommended = toggle.server
    /\ toggle.textContent = IF toggle.server THEN UnrecommendText ELSE RecommendText

\* C30: the label of the button and its class 'recommended' change only
\* when a response with status success is handled, and together: the button
\* has the class exactly when its label is the un-recommend label; a failure
\* response or a rejected request leaves the button as it is.
C30_LabelAndClassChangeTogether ==
  /\ [](toggle.recommended <=> toggle.textContent = UnrecommendText)
  /\ [](toggle.textContent \in {RecommendText, UnrecommendText})
  /\ [][ /\ (toggle'.textContent # toggle.textContent \/ toggle'.recommended # toggle.recommended)
             => \E v \in BOOLEAN :
                  /\ ToggleHandles([status |-> "success", is_recommended |-> v])
                  /\ toggle'.recommended = v
         /\ \A s \in {"error", "rejected"}, v \in BOOLEAN :
              ToggleHandles([status |-> s, is_recommended |-> v]) =>
                /\ toggle'.textContent = toggle.textContent
                /\ toggle'.recommended = toggle.recommended
                /\ toggle'.alerts = toggle.alerts + 1 ]_vars

\* a success response has changed the button and removed the class again,
\* and a failure response and a rejected request have been handled
C30_Witness ==
  /\ toggle.isRecommended
  /\ ~toggle.recommended
  /\ toggle.textContent = RecommendText
  /\ toggle.alerts = 2
  /\ toggle.clicks = 3
  /\ toggle.replies = <<>>

TokenSyncHandles(r) ==
  /\ tokenSync.inFlight > 0
  /\ tokenSync' = TokenSyncApply(tokenSync, r)

\* the response is HTTP-ok and its status is success
TokenSyncGood(r) == r.kind = "json" /\ r.ok /\ r.status = "success"

\* C32: the form fields are written only when the response is HTTP-ok and
\* its status is success; a click with a missing address or chain, a non-ok
\* response, a non-success status, an unparsable body and a network failure
\* leave every form field unchanged, and after any outcome of a request the
\* button is enabled.
C32_FieldsWrittenOnlyOnSuccess ==
  [][ /\ tokenSync'.fields # tokenSync.fields =>
           \E r \in TokenSyncReplies : TokenSyncGood(r) /\ TokenSyncHandles(r)
      /\ \A r \in TokenSyncReplies :
           (TokenSyncHandles(r) /\ ~TokenSyncGood(r)) =>
             tokenSync'.fields = tokenSync.fields
      /\ (/\ tokenSync'.clicks # tokenSync.clicks
          /\ (Trim(tokenSync.address) = "" \/ tokenSync.chain = "")) =>
           /\ tokenSync'.fields = tokenSync.fields
           /\ tokenSync'.inFlight = tokenSync.inFlight
           /\ ~tokenSync'.disabled
      /\ tokenSync'.inFlight < tokenSync.inFlight => ~tokenSync'.disabled ]_vars

\* a good response has filled the fields, a later request has failed and
\* left them, a click with a blank address has sent nothing, and the button
\* is enabled
C32_Witness ==
  /\ tokenSync.fields = [name |-> "Coin", is_verified |-> TRUE]
  /\ tokenSync.statusText = "Sync failed: boom"
  /\ tokenSync.alerts = 1
  /\ tokenSync.clicks = 3
  /\ ~tokenSync.disabled
  /\ tokenSync.inFlight = 0

=============================================================================
